---- MODULE Spec2Model ----
(***************************************************************************)
(* IVoiceCue.py: a keyboard's per-key LEDs follow Voicemeeter strip        *)
(* parameters.  Two threads share ParameterObserver.monitored_params with  *)
(* no lock: the main thread runs the poll loop (check_updates), the pynput *)
(* listener thread runs on_release -> toggle_strip.                        *)
(*                                                                         *)
(* Gains are held in tenths of a dB (Voicemeeter reports gains rounded to  *)
(* one decimal): 0.0 is 0, -30.0 is -300, 0.40 is 4.  Booleans are held as *)
(* the integers they are in Python: False is 0, True is 1.                 *)
(***************************************************************************)
EXTENDS Integers, Sequences, FiniteSets, TLC

\* ---------------------------------------------------------------------
\* COLORS (lines 11-16)
\* ---------------------------------------------------------------------
LED_ON_COLOR == <<0, 255, 0>>
LED_OFF_COLOR == <<255, 0, 0>>
BLUE == <<0, 0, 255>>
GREEN == <<0, 255, 0>>
RED == <<255, 0, 0>>

\* What an indicator shows before the program has set it.
NoColor == <<0, 0, 0>>

\* Python None for a reference pair is the empty tuple: "rng is not None
\* and len(rng) == 2" is Len(rng) = 2.
NoRange == <<>>

\* ---------------------------------------------------------------------
\* STRIP_CONFIG (lines 34-50): key -> (strip_index, param_name, led_id,
\* is_gain, (origin, end)).  The model tracks one boolean binding and one
\* gain binding of the table, in the table's order.
\* ---------------------------------------------------------------------
KeyOrder == <<97, 104>>

ConfigKeys == {KeyOrder[i] : i \in 1..Len(KeyOrder)}

STRIP_CONFIG ==
    [vk \in ConfigKeys |->
        IF vk = 97
        THEN [s_idx |-> 0, p_name |-> "B1", led_id |-> 116,
              is_gain |-> FALSE, rng |-> NoRange]
        ELSE [s_idx |-> 5, p_name |-> "gain", led_id |-> 110,
              is_gain |-> TRUE, rng |-> <<0, -300>>]]

\* Key codes a release can carry: the bound ones, an unbound KeyCode (65)
\* and a special key that is not a KeyCode (0).
SpecialKey == 0
ReleasedKeys == ConfigKeys \cup {65, SpecialKey}

\* Bounds of the model: how many external parameter changes, failing
\* SDK calls and key releases one behaviour contains.
MaxExternalWrites == 1
MaxLedFailures == 1
MaxReleases == 2

\* Values the mixer can hold for a parameter.  A Python bool is an int:
\* False is 0 and True is 1.
GainValues == {-300, -150, 0, 50}
BoolValues == {0, 1}

ValuesOf(vk) == IF STRIP_CONFIG[vk].is_gain THEN GainValues ELSE BoolValues

LedIds == {STRIP_CONFIG[vk].led_id : vk \in ConfigKeys}

\* ---------------------------------------------------------------------
\* clamp (lines 55-56)
\* ---------------------------------------------------------------------
Max2(a, b) == IF a >= b THEN a ELSE b
Min2(a, b) == IF a <= b THEN a ELSE b
clamp(value, min_val, max_val) == Max2(min_val, Min2(value, max_val))

Abs(x) == IF x < 0 THEN -x ELSE x

\* ---------------------------------------------------------------------
\* color_for_gain (lines 61-105).  ratio = (value - origin)/(end - origin)
\* is kept as the fraction d/den with d = |value - origin| clamped to
\* 0..den and den = |end - origin|; int() truncates.  In IEEE doubles
\* 1.0 - ratio falls just below the exact value for the ratios 12/15,
\* 13/15 and 14/15 of the configured ranges, so int(255 * (1.0 - ratio))
\* is one less than the exact quotient there (FloatLoss).  This is what
\* the doubles give for values and reference pairs that are whole dB and
\* a span |end - origin| in which 255 * d / den is a whole number only
\* for thirds, fifths and fifteenths of the span; int(255 * ratio) is
\* the exact quotient there.
\* ---------------------------------------------------------------------
FloatLoss(d, den) ==
    IF 15 * d \in {12 * den, 13 * den, 14 * den} THEN 1 ELSE 0

\* As GainGradient, but the distance is always measured upwards from
\* the lower end of the pair.
GainGradientFromLow(value, origin, end) ==
    LET den == Abs(end - origin)
        d == clamp(value - Min2(origin, end), 0, den)
    IN  << (255 * d) \div den,
           ((255 * (den - d)) \div den) - FloatLoss(d, den),
           0 >>

GainGradient(value, origin, end) ==
    LET den == Abs(end - origin)
        d == clamp(IF origin < end THEN value - origin ELSE origin - value,
                   0, den)
    IN  << (255 * d) \div den,
           ((255 * (den - d)) \div den) - FloatLoss(d, den),
           0 >>

\* As color_for_gain, without the branch for a descending pair: the
\* tests of the ascending branch are applied to every pair.
color_for_gain_forward(value, origin, end) ==
    IF origin = end THEN RED
    ELSE IF value < origin THEN BLUE
         ELSE IF value > end THEN RED
         ELSE GainGradient(value, origin, end)

\* As color_for_gain, but the descending branch returns the two fixed
\* colors the other way round.
color_for_gain_swapped(value, origin, end) ==
    IF origin = end THEN RED
    ELSE IF origin < end
         THEN IF value < origin THEN BLUE
              ELSE IF value > end THEN RED
              ELSE GainGradient(value, origin, end)
         ELSE IF value < end THEN BLUE
              ELSE IF value > origin THEN RED
              ELSE GainGradient(value, origin, end)

color_for_gain(value, origin, end) ==
    IF origin = end THEN RED
    ELSE IF origin < end
         THEN IF value < origin THEN BLUE
              ELSE IF value > end THEN RED
              ELSE GainGradient(value, origin, end)
         ELSE IF value < end THEN RED
              ELSE IF value > origin THEN BLUE
              ELSE GainGradient(value, origin, end)

\* The test "is_gain and rng is not None and len(rng) == 2" of lines 155,
\* 169 and 191.
IsGainEntry(e) == e.is_gain /\ Len(e.rng) = 2

\* The color KeyLightingController.set_color computes (lines 122-129) for
\* the way the observer calls it: gain= and gain_range= for a gain entry,
\* state= for the others.
SetColorValue(e, val) ==
    IF IsGainEntry(e)
    THEN color_for_gain(val, e.rng[1], e.rng[2])
    ELSE IF val # 0 THEN LED_ON_COLOR ELSE LED_OFF_COLOR

\* The monitored_params tuple (line 151) built from a config entry.
Entry(vk, val) ==
    [s_idx |-> STRIP_CONFIG[vk].s_idx, p_name |-> STRIP_CONFIG[vk].p_name,
     val |-> val, led_id |-> STRIP_CONFIG[vk].led_id,
     is_gain |-> STRIP_CONFIG[vk].is_gain, rng |-> STRIP_CONFIG[vk].rng]

WithVal(e, val) == [e EXCEPT !.val = val]

Loc(e) == <<e.s_idx, e.p_name>>

Locations == {Loc(STRIP_CONFIG[vk]) : vk \in ConfigKeys}

KeyAt(loc) == CHOOSE vk \in ConfigKeys : Loc(STRIP_CONFIG[vk]) = loc

\* As ToggleValue, but a boolean is switched on instead of negated.
ToggleValueSwitchOn(e) ==
    IF IsGainEntry(e)
    THEN IF e.val = e.rng[2] THEN e.rng[1] ELSE e.rng[2]
    ELSE 1

\* As ToggleValue, but a gain is compared with origin, not with end.
ToggleValueFromOrigin(e) ==
    IF IsGainEntry(e)
    THEN IF e.val = e.rng[1] THEN e.rng[2] ELSE e.rng[1]
    ELSE IF e.val # 0 THEN 0 ELSE 1

\* new_val of toggle_strip (lines 172 and 179).
ToggleValue(e) ==
    IF IsGainEntry(e)
    THEN IF e.val = e.rng[2] THEN e.rng[1] ELSE e.rng[2]
    ELSE IF e.val # 0 THEN 0 ELSE 1

NoEntry == [s_idx |-> -1, p_name |-> "", val |-> 0, led_id |-> -1,
            is_gain |-> FALSE, rng |-> NoRange]

VARIABLES
    ext,               \* vm.strip[s_idx].p_name, the mixer's parameters
    led,               \* the color each keyboard LED shows
    monitored_params,  \* ParameterObserver.monitored_params
    pc_main,           \* position of the main thread
    p_idx,             \* check_updates: index in the dict iteration
    p_ent,             \* check_updates: the tuple unpacked at line 188
    p_cur,             \* check_updates: cur_val (line 189)
    p_log,             \* calls check_updates made for its last entry
    listener_running,  \* listener.running
    pc_cb,             \* position of the listener thread's callback
    t_key,             \* on_release: the key of the last release
    t_ent,             \* toggle_strip: the tuple unpacked at line 167
    t_new,             \* toggle_strip: new_val
    t_log,             \* calls the running toggle_strip has made
    fault,             \* the call whose exception nothing caught
    pair,              \* history: the run of consecutive toggles of one key
    p_clean,           \* history: the pass ran alone with working lighting
    used               \* events counted against the bounds

vars == <<ext, led, monitored_params, pc_main, p_idx, p_ent, p_cur, p_log,
          listener_running, pc_cb, t_key, t_ent, t_new, t_log, fault,
          pair, p_clean, used>>

mainVars == <<pc_main, p_idx, p_ent, p_cur, p_log, fault>>

\* An SDK call may fail while the bound allows it.
Outcomes == IF used.failures < MaxLedFailures THEN BOOLEAN ELSE {TRUE}
CountFailure(ok) ==
    IF ok THEN used ELSE [used EXCEPT !.failures = used.failures + 1]
pollVars == <<pc_main, p_idx, p_ent, p_cur, p_log>>
cbVars == <<pc_cb, t_key, t_ent, t_new, t_log>>

\* pair records, when a toggle_strip call starts a run on key vk, the
\* external value (ext0), the indicator color (led0) and lastValue (val0)
\* at that moment, and counts in n the toggles of vk completed since
\* with nothing else touching the binding: an external write to its
\* parameter, a set_color or a store of check_updates for it, or a toggle
\* of another key ends the run.
NoPair == [vk |-> 0, n |-> 0, ext0 |-> 0, led0 |-> NoColor,
           val0 |-> 0]

StartPair(key) ==
    IF pair.vk = key /\ pair.n = 1
    THEN pair
    ELSE [vk |-> key, n |-> 0, ext0 |-> ext[Loc(monitored_params[key])],
          led0 |-> led[monitored_params[key].led_id],
          val0 |-> monitored_params[key].val]

BreakPair(e) ==
    IF pair.vk # 0 /\ STRIP_CONFIG[pair.vk].led_id = e.led_id
    THEN NoPair ELSE pair

\* The process is alive until main() returns; the listener thread is a
\* daemon thread and ends with it.  While main leaves the with blocks
\* (lines 241, 207) and prints (lines 247, 249) the listener thread
\* still runs.
Alive == pc_main # "done"

\* One call on the mixer (getattr/setattr on vm.strip[s_idx]) or on the
\* lighting SDK (sdk.set_led_colors), as the logs record it.
ReadCall(e, v) == [op |-> "read", led_id |-> e.led_id, val |-> v, ok |-> TRUE]
WriteCall(e, v, was) ==
    [op |-> "write", led_id |-> e.led_id, val |-> v, ok |-> TRUE, was |-> was]
SetColorCall(e, c, ok) ==
    [op |-> "set_color", led_id |-> e.led_id, val |-> c, ok |-> ok]

Init ==
    /\ \E b \in BoolValues, g \in GainValues :
          ext = [loc \in Locations |->
                   IF STRIP_CONFIG[KeyAt(loc)].is_gain THEN g ELSE b]
    /\ led = [id \in LedIds |-> NoColor]
    /\ monitored_params = [vk \in {} |-> NoEntry]
    /\ pc_main = "construct"
    /\ p_idx = 0
    /\ p_ent = NoEntry
    /\ p_cur = 0
    /\ p_log = <<>>
    /\ listener_running = FALSE
    /\ pc_cb = "unstarted"
    /\ t_key = SpecialKey
    /\ t_ent = NoEntry
    /\ t_new = 0
    /\ t_log = <<>>
    /\ fault = "none"
    /\ pair = NoPair
    /\ p_clean = FALSE
    /\ used = [writes |-> 0, failures |-> 0, releases |-> 0]

\* ---------------------------------------------------------------------
\* KeyLightingController.set_color (lines 116-137): the SDK call either
\* sets the LED or raises, and the exception is swallowed (line 136).
\* ---------------------------------------------------------------------
set_color(leds, e, val, ok) ==
    IF ok THEN [leds EXCEPT ![e.led_id] = SetColorValue(e, val)] ELSE leds

\* ---------------------------------------------------------------------
\* main thread
\* ---------------------------------------------------------------------

\* As Construct, but main goes on to the listener without calling
\* initialize_leds.
ConstructSkipsInit ==
    /\ pc_main = "construct"
    /\ monitored_params' =
           [vk \in ConfigKeys |-> Entry(vk, ext[Loc(STRIP_CONFIG[vk])])]
    /\ pc_main' = "listen"
    /\ UNCHANGED <<ext, led, p_idx, p_ent, p_cur, p_log, fault,
                   listener_running, pair, p_clean>>
    /\ UNCHANGED cbVars
    /\ UNCHANGED used

\* ParameterObserver.__init__ (lines 143-151), called at line 226.
Construct ==
    /\ pc_main = "construct"
    /\ monitored_params' =
           [vk \in ConfigKeys |-> Entry(vk, ext[Loc(STRIP_CONFIG[vk])])]
    /\ pc_main' = "init_leds"
    /\ UNCHANGED <<ext, led, p_idx, p_ent, p_cur, p_log, fault,
                   listener_running, pair, p_clean>>
    /\ UNCHANGED cbVars
    /\ UNCHANGED used

\* A startup failure (lines 207-218, or the getattr of line 150 raising):
\* the exception reaches main's except clause (line 246).
StartupFails ==
    /\ pc_main = "construct"
    /\ pc_main' = "done"
    /\ fault' = "startup"
    /\ UNCHANGED <<ext, led, monitored_params, p_idx, p_ent, p_cur, p_log,
                   listener_running, pair, p_clean>>
    /\ UNCHANGED cbVars
    /\ UNCHANGED used

\* initialize_leds (lines 153-161), called at line 228: one set_color per
\* entry; failed is the set of LEDs whose SDK call raised.
initialize_leds ==
    /\ pc_main = "init_leds"
    /\ \E failed \in SUBSET LedIds :
          /\ Cardinality(failed) <= MaxLedFailures - used.failures
          /\ used' = [used EXCEPT
                         !.failures = used.failures + Cardinality(failed)]
          /\ led' = [id \in LedIds |->
                       LET vk == CHOOSE k \in ConfigKeys :
                                  monitored_params[k].led_id = id
                           e == monitored_params[vk]
                       IN  set_color(led, e, e.val, id \notin failed)[id]]
    /\ pc_main' = "listen"
    /\ UNCHANGED <<ext, monitored_params, p_idx, p_ent, p_cur, p_log,
                   fault, listener_running, pair, p_clean>>
    /\ UNCHANGED cbVars

\* with Listener(on_release=on_release) as listener (line 241).
StartListener ==
    /\ pc_main = "listen"
    /\ listener_running' = TRUE
    /\ pc_cb' = "idle"
    /\ pc_main' = "loop"
    /\ UNCHANGED <<ext, led, monitored_params, p_idx, p_ent, p_cur, p_log,
                   fault, t_key, t_ent, t_new, t_log, pair, p_clean>>
    /\ UNCHANGED used

\* As PollLoop, but the loop condition is not looked at: a pass is
\* started whether or not the listener runs.
PollLoopIgnoresStop ==
    /\ pc_main = "loop"
    /\ pc_main' = "next"
    /\ p_idx' = 1
    /\ p_clean' = (pc_cb = "idle")
    /\ UNCHANGED <<ext, led, monitored_params, p_ent, p_cur, p_log, fault,
                   listener_running, pair>>
    /\ UNCHANGED cbVars
    /\ UNCHANGED used

\* while listener.running (line 242): enter check_updates, or start to
\* leave the with block.
PollLoop ==
    /\ pc_main = "loop"
    /\ IF listener_running
       THEN /\ pc_main' = "next"
            /\ p_idx' = 1
            /\ p_clean' = (pc_cb = "idle")
       ELSE /\ pc_main' = "exit"
            /\ UNCHANGED <<p_idx, p_clean>>
    /\ UNCHANGED <<ext, led, monitored_params, p_ent, p_cur, p_log, fault,
                   listener_running, pair>>
    /\ UNCHANGED cbVars
    /\ UNCHANGED used

\* The for statement of check_updates (line 188): the next item of
\* monitored_params.items() is unpacked, or the loop ends.
PollNext ==
    /\ pc_main = "next"
    /\ IF p_idx <= Len(KeyOrder)
       THEN /\ p_ent' = monitored_params[KeyOrder[p_idx]]
            /\ pc_main' = "read"
       ELSE /\ p_ent' = NoEntry
            /\ pc_main' = "sleep"
    /\ p_cur' = 0
    /\ p_log' = <<>>
    /\ UNCHANGED <<ext, led, monitored_params, p_idx, fault,
                   listener_running, pair, p_clean>>
    /\ UNCHANGED cbVars
    /\ UNCHANGED used

\* As PollRead, without the comparison of line 190: every entry goes on
\* to set_color and the store.
PollReadAlwaysSets ==
    /\ pc_main = "read"
    /\ p_log' = Append(p_log, ReadCall(p_ent, ext[Loc(p_ent)]))
    /\ p_cur' = ext[Loc(p_ent)]
    /\ pc_main' = "led"
    /\ UNCHANGED <<ext, led, monitored_params, p_idx, p_ent, fault,
                   listener_running, pair, p_clean>>
    /\ UNCHANGED cbVars
    /\ UNCHANGED used

\* cur_val = getattr(...) and the comparison with last_val (lines 189-190).
PollRead ==
    /\ pc_main = "read"
    /\ p_log' = Append(p_log, ReadCall(p_ent, ext[Loc(p_ent)]))
    /\ IF ext[Loc(p_ent)] # p_ent.val
       THEN /\ p_cur' = ext[Loc(p_ent)]
            /\ pc_main' = "led"
            /\ UNCHANGED p_idx
       ELSE /\ pc_main' = "next"
            /\ p_idx' = p_idx + 1
            /\ UNCHANGED p_cur
    /\ UNCHANGED <<ext, led, monitored_params, p_ent, fault,
                   listener_running, pair, p_clean>>
    /\ UNCHANGED cbVars
    /\ UNCHANGED used

\* The getattr of line 189 raises: nothing in check_updates or the poll
\* loop catches it, so main starts to leave the with block; the
\* listener still runs.
PollReadFails ==
    /\ pc_main = "read"
    /\ pc_main' = "exit"
    /\ fault' = "read"
    /\ UNCHANGED <<ext, led, monitored_params, p_idx, p_ent, p_cur, p_log,
                   listener_running, pair, p_clean>>
    /\ UNCHANGED cbVars
    /\ UNCHANGED used

\* As PollSetColor, but the exception of the SDK call is not swallowed:
\* it ends check_updates and main.
PollSetColorRaises ==
    /\ pc_main = "led"
    /\ \E ok \in Outcomes :
          /\ used' = CountFailure(ok)
          /\ led' = set_color(led, p_ent, p_cur, ok)
          /\ p_log' = Append(p_log,
                  SetColorCall(p_ent, SetColorValue(p_ent, p_cur), ok))
          /\ p_clean' = (p_clean /\ ok)
          /\ pc_main' = IF ok THEN "store" ELSE "exit"
          /\ fault' = IF ok THEN fault ELSE "set_color"
          /\ UNCHANGED listener_running
    /\ pair' = BreakPair(p_ent)
    /\ UNCHANGED <<ext, monitored_params, p_idx, p_ent, p_cur>>
    /\ UNCHANGED cbVars

\* set_color of lines 192 and 195.
PollSetColor ==
    /\ pc_main = "led"
    /\ \E ok \in Outcomes :
          /\ used' = CountFailure(ok)
          /\ led' = set_color(led, p_ent, p_cur, ok)
          /\ p_log' = Append(p_log,
                  SetColorCall(p_ent, SetColorValue(p_ent, p_cur), ok))
          /\ p_clean' = (p_clean /\ ok)
    /\ pc_main' = "store"
    /\ pair' = BreakPair(p_ent)
    /\ UNCHANGED <<ext, monitored_params, p_idx, p_ent, p_cur, fault,
                   listener_running>>
    /\ UNCHANGED cbVars

\* As PollStore, but the tuple is stored back with last_val.
PollStoreStale ==
    /\ pc_main = "store"
    /\ monitored_params' =
           [monitored_params EXCEPT ![KeyOrder[p_idx]] = p_ent]
    /\ p_idx' = p_idx + 1
    /\ pc_main' = "next"
    /\ pair' = BreakPair(p_ent)
    /\ UNCHANGED <<ext, led, p_ent, p_cur, p_log, fault, listener_running,
                   p_clean>>
    /\ UNCHANGED cbVars
    /\ UNCHANGED used

\* self.monitored_params[vk] = (..., cur_val, ...) (line 198).
PollStore ==
    /\ pc_main = "store"
    /\ monitored_params' =
           [monitored_params EXCEPT ![KeyOrder[p_idx]] = WithVal(p_ent, p_cur)]
    /\ p_idx' = p_idx + 1
    /\ pc_main' = "next"
    /\ pair' = BreakPair(p_ent)
    /\ UNCHANGED <<ext, led, p_ent, p_cur, p_log, fault, listener_running,
                   p_clean>>
    /\ UNCHANGED cbVars
    /\ UNCHANGED used

\* time.sleep(CHECK_INTERVAL) (line 244).
PollSleep ==
    /\ pc_main = "sleep"
    /\ pc_main' = "loop"
    /\ p_idx' = 0
    /\ p_clean' = FALSE
    /\ UNCHANGED <<ext, led, monitored_params, p_ent, p_cur, p_log, fault,
                   listener_running, pair>>
    /\ UNCHANGED cbVars
    /\ UNCHANGED used

\* Listener.__exit__ (line 241), on the way out of the with block after
\* the loop has ended or an exception has left it: listener.stop().
ListenerExit ==
    /\ pc_main = "exit"
    /\ pc_main' = "closing"
    /\ listener_running' = FALSE
    /\ UNCHANGED <<ext, led, monitored_params, p_idx, p_ent, p_cur, p_log,
                   fault, pair, p_clean>>
    /\ UNCHANGED cbVars
    /\ UNCHANGED used

\* The api's __exit__ (line 207), the except and finally clauses (lines
\* 246-249), and main() returns: the process and its daemon listener
\* thread end.
MainReturns ==
    /\ pc_main = "closing"
    /\ pc_main' = "done"
    /\ UNCHANGED <<ext, led, monitored_params, p_idx, p_ent, p_cur, p_log,
                   fault, listener_running, pair, p_clean>>
    /\ UNCHANGED cbVars
    /\ UNCHANGED used

\* ---------------------------------------------------------------------
\* listener thread: on_release (lines 234-239) and toggle_strip
\* ---------------------------------------------------------------------

\* As OnRelease, but a KeyCode that matches no binding is taken for the
\* first key of the table instead of being ignored.
OnReleaseUnfiltered(key) ==
    /\ Alive
    /\ listener_running
    /\ pc_cb = "idle"
    /\ used.releases < MaxReleases
    /\ used' = [used EXCEPT !.releases = used.releases + 1]
    /\ t_key' = key
    /\ IF key # SpecialKey
       THEN /\ t_ent' = monitored_params[IF key \in ConfigKeys
                                         THEN key ELSE KeyOrder[1]]
            /\ pc_cb' = "write"
            /\ pair' = NoPair
       ELSE /\ pc_cb' = "return"
            /\ UNCHANGED <<t_ent, pair>>
    /\ p_clean' = FALSE
    /\ UNCHANGED <<ext, led, monitored_params, t_new, t_log,
                   listener_running, fault>>
    /\ UNCHANGED pollVars

\* A key release reaches on_release; a bound KeyCode enters toggle_strip,
\* which returns at once for an untracked key (lines 164-165) and else
\* unpacks the entry (line 167).
OnRelease(key) ==
    /\ Alive
    /\ listener_running
    /\ pc_cb = "idle"
    /\ used.releases < MaxReleases
    /\ used' = [used EXCEPT !.releases = used.releases + 1]
    /\ t_key' = key
    /\ IF key # SpecialKey /\ key \in DOMAIN STRIP_CONFIG
          /\ key \in DOMAIN monitored_params
       THEN /\ t_ent' = monitored_params[key]
            /\ pc_cb' = "write"
            /\ pair' = StartPair(key)
       ELSE /\ pc_cb' = "return"
            /\ UNCHANGED <<t_ent, pair>>
    /\ p_clean' = FALSE
    /\ UNCHANGED <<ext, led, monitored_params, t_new, t_log,
                   listener_running, fault>>
    /\ UNCHANGED pollVars

\* As ToggleWrite, but set_color is called before the setattr.
ToggleColorThenWrite ==
    /\ Alive
    /\ pc_cb = "write"
    /\ t_new' = ToggleValue(t_ent)
    /\ led' = set_color(led, t_ent, ToggleValue(t_ent), TRUE)
    /\ ext' = [ext EXCEPT ![Loc(t_ent)] = ToggleValue(t_ent)]
    /\ t_log' = <<SetColorCall(t_ent,
                      SetColorValue(t_ent, ToggleValue(t_ent)), TRUE),
                  WriteCall(t_ent, ToggleValue(t_ent), ext[Loc(t_ent)])>>
    /\ pc_cb' = "store"
    /\ UNCHANGED <<monitored_params, t_key, t_ent, listener_running,
                   fault, pair, p_clean>>
    /\ UNCHANGED pollVars
    /\ UNCHANGED used

\* new_val and the setattr on the mixer (lines 172-173 and 179-180).
ToggleWrite ==
    /\ Alive
    /\ pc_cb = "write"
    /\ t_new' = ToggleValue(t_ent)
    /\ ext' = [ext EXCEPT ![Loc(t_ent)] = ToggleValue(t_ent)]
    /\ t_log' = Append(t_log,
                       WriteCall(t_ent, ToggleValue(t_ent), ext[Loc(t_ent)]))
    /\ pc_cb' = "led"
    /\ UNCHANGED <<led, monitored_params, t_key, t_ent, listener_running,
                   fault, pair, p_clean>>
    /\ UNCHANGED pollVars
    /\ UNCHANGED used

\* As ToggleWriteFails, but the exception of the setattr is swallowed
\* inside toggle_strip, which goes on to set_color and the store.
ToggleWriteFailsGoesOn ==
    /\ Alive
    /\ pc_cb = "write"
    /\ t_new' = ToggleValue(t_ent)
    /\ pc_cb' = "led"
    /\ fault' = "write"
    /\ pair' = NoPair
    /\ UNCHANGED <<ext, led, monitored_params, t_key, t_ent, t_log,
                   listener_running, p_clean>>
    /\ UNCHANGED pollVars
    /\ UNCHANGED used

\* The setattr raises: the exception leaves toggle_strip and on_release;
\* pynput ends the listener thread, so listener.running becomes False.
ToggleWriteFails ==
    /\ Alive
    /\ pc_cb = "write"
    /\ t_new' = ToggleValue(t_ent)
    /\ pc_cb' = "dead"
    /\ listener_running' = FALSE
    /\ fault' = "write"
    /\ pair' = NoPair
    /\ UNCHANGED <<ext, led, monitored_params, t_key, t_ent, t_log, p_clean>>
    /\ UNCHANGED pollVars
    /\ UNCHANGED used

\* set_color of lines 174 and 181.
ToggleSetColor ==
    /\ Alive
    /\ pc_cb = "led"
    /\ \E ok \in Outcomes :
          /\ used' = CountFailure(ok)
          /\ led' = set_color(led, t_ent, t_new, ok)
          /\ t_log' = Append(t_log,
                  SetColorCall(t_ent, SetColorValue(t_ent, t_new), ok))
    /\ pc_cb' = "store"
    /\ UNCHANGED <<ext, monitored_params, t_key, t_ent, t_new,
                   listener_running, fault, pair, p_clean>>
    /\ UNCHANGED pollVars

\* As ToggleStore, but the tuple is stored back with cur_val.
ToggleStoreStale ==
    /\ Alive
    /\ pc_cb = "store"
    /\ monitored_params' = [monitored_params EXCEPT ![t_key] = t_ent]
    /\ pc_cb' = "return"
    /\ pair' = IF pair.vk = t_key
               THEN [pair EXCEPT !.n = pair.n + 1] ELSE pair
    /\ UNCHANGED <<ext, led, t_key, t_ent, t_new, t_log, listener_running,
                   fault, p_clean>>
    /\ UNCHANGED pollVars
    /\ UNCHANGED used

\* As ToggleStore, but the new tuple is stored under every key of the
\* snapshot.
ToggleStoreEverywhere ==
    /\ Alive
    /\ pc_cb = "store"
    /\ monitored_params' =
           [vk \in DOMAIN monitored_params |-> WithVal(t_ent, t_new)]
    /\ pc_cb' = "return"
    /\ pair' = IF pair.vk = t_key
               THEN [pair EXCEPT !.n = pair.n + 1] ELSE pair
    /\ UNCHANGED <<ext, led, t_key, t_ent, t_new, t_log, listener_running,
                   fault, p_clean>>
    /\ UNCHANGED pollVars
    /\ UNCHANGED used

\* self.monitored_params[vk] = (..., new_val, ...) (line 184).
ToggleStore ==
    /\ Alive
    /\ pc_cb = "store"
    /\ monitored_params' =
           [monitored_params EXCEPT ![t_key] = WithVal(t_ent, t_new)]
    /\ pc_cb' = "return"
    /\ pair' = IF pair.vk = t_key
               THEN [pair EXCEPT !.n = pair.n + 1] ELSE pair
    /\ UNCHANGED <<ext, led, t_key, t_ent, t_new, t_log, listener_running,
                   fault, p_clean>>
    /\ UNCHANGED pollVars
    /\ UNCHANGED used

\* return True (line 239): the callback is over and its locals are dead.
OnReleaseReturn ==
    /\ Alive
    /\ pc_cb = "return"
    /\ pc_cb' = "idle"
    /\ t_key' = SpecialKey
    /\ t_ent' = NoEntry
    /\ t_new' = 0
    /\ t_log' = <<>>
    /\ pair' = IF pair.n >= 2 THEN NoPair ELSE pair
    /\ UNCHANGED <<ext, led, monitored_params, listener_running, fault,
                   p_clean>>
    /\ UNCHANGED pollVars
    /\ UNCHANGED used

\* ---------------------------------------------------------------------
\* environment
\* ---------------------------------------------------------------------

\* The parameter is changed from outside (Voicemeeter UI, another
\* control surface).
ExternalWrite(loc, v) ==
    /\ Alive
    /\ v # ext[loc]
    /\ used.writes < MaxExternalWrites
    /\ used' = [used EXCEPT !.writes = used.writes + 1]
    /\ ext' = [ext EXCEPT ![loc] = v]
    /\ pair' = BreakPair(STRIP_CONFIG[KeyAt(loc)])
    /\ UNCHANGED <<led, monitored_params, listener_running, p_clean>>
    /\ UNCHANGED mainVars
    /\ UNCHANGED cbVars

\* The listener stops (listener.stop(), or its thread ends): the
\* callback in progress finishes, no further release is delivered.
ListenerStops ==
    /\ Alive
    /\ listener_running
    /\ listener_running' = FALSE
    /\ UNCHANGED <<ext, led, monitored_params, pair, p_clean>>
    /\ UNCHANGED mainVars
    /\ UNCHANGED cbVars
    /\ UNCHANGED used

Next ==
    \/ Construct
    \/ StartupFails
    \/ initialize_leds
    \/ StartListener
    \/ PollLoop
    \/ PollNext
    \/ PollRead
    \/ PollReadFails
    \/ PollSetColor
    \/ PollStore
    \/ PollSleep
    \/ ListenerExit
    \/ MainReturns
    \/ \E key \in ReleasedKeys : OnRelease(key)
    \/ ToggleWrite
    \/ ToggleWriteFails
    \/ ToggleSetColor
    \/ ToggleStore
    \/ OnReleaseReturn
    \/ \E loc \in Locations : \E v \in ValuesOf(KeyAt(loc)) :
          ExternalWrite(loc, v)
    \/ ListenerStops

Spec == Init /\ [][Next]_vars

\* The steps of the main thread in check_updates, around it and on its
\* way out of main, and the
\* steps of a callback that has been entered.  Both threads are
\* scheduled: a step that stays possible is eventually taken (every call
\* returns or raises, time.sleep ends).  Key releases, external changes
\* and the listener's stop are up to the environment.  Every step of
\* MainStep changes pc_main and every step of CallbackStep changes pc_cb.
MainStep ==
    \/ PollLoop
    \/ PollNext
    \/ PollRead
    \/ PollSetColor
    \/ PollStore
    \/ PollSleep
    \/ ListenerExit
    \/ MainReturns

CallbackStep ==
    \/ ToggleWrite
    \/ ToggleSetColor
    \/ ToggleStore
    \/ OnReleaseReturn

FairSpec == Spec /\ WF_pc_main(MainStep) /\ WF_pc_cb(CallbackStep)

\* ---------------------------------------------------------------------
\* color_for_gain on its own: set_color is called once with gain= and
\* gain_range= (lines 124-126) for a value and a reference pair drawn
\* from ColorValues and ColorEnds, on the indicator of the gain binding.
\* ---------------------------------------------------------------------
ColorEnds == {-300, -30, 0, 20}
ColorValues == {10 * k : k \in -32..4}

ColorInit ==
    /\ \E b \in BoolValues, g \in GainValues :
          ext = [loc \in Locations |->
                   IF STRIP_CONFIG[KeyAt(loc)].is_gain THEN g ELSE b]
    /\ led = [id \in LedIds |-> NoColor]
    /\ monitored_params = [vk \in {} |-> NoEntry]
    /\ pc_main = "color"
    /\ p_idx = 0
    /\ \E origin \in ColorEnds, end \in ColorEnds :
          p_ent = [Entry(104, 0) EXCEPT !.rng = <<origin, end>>]
    /\ p_cur \in ColorValues
    /\ p_log = <<>>
    /\ listener_running = FALSE
    /\ pc_cb = "unstarted"
    /\ t_key = SpecialKey
    /\ t_ent = NoEntry
    /\ t_new = 0
    /\ t_log = <<>>
    /\ fault = "none"
    /\ pair = NoPair
    /\ p_clean = FALSE
    /\ used = [writes |-> 0, failures |-> 0, releases |-> 0]

ApplyColor ==
    /\ pc_main = "color"
    /\ led' = set_color(led, p_ent, p_cur, TRUE)
    /\ pc_main' = "colored"
    /\ UNCHANGED <<ext, monitored_params, p_idx, p_ent, p_cur, p_log, fault,
                   listener_running, pair, p_clean>>
    /\ UNCHANGED cbVars
    /\ UNCHANGED used

ColorNext == ApplyColor

ColorSpec == ColorInit /\ [][ColorNext]_vars

TypeOK ==
    /\ pc_main \in {"construct", "init_leds", "listen", "loop", "next",
                     "read", "led", "store", "sleep", "exit", "closing",
                     "done"}
    /\ pc_cb \in {"unstarted", "idle", "write", "led", "store", "return",
                   "dead"}
    /\ \A loc \in Locations : ext[loc] \in ValuesOf(KeyAt(loc))
    /\ DOMAIN monitored_params \in {{}, ConfigKeys}
    /\ pair.n \in 0..2

\* ---------------------------------------------------------------------
\* Properties
\* ---------------------------------------------------------------------

\* The color ColorMapper gives the lastValue of a tracked entry.
ColorOfLastValue(vk) ==
    SetColorValue(monitored_params[vk], monitored_params[vk].val)

IndicatorsMatch ==
    \A vk \in DOMAIN monitored_params :
        led[monitored_params[vk].led_id] = ColorOfLastValue(vk)

\* initialize_leds has run, no check_updates pass and no toggle_strip
\* call is in progress, and one of them has completed.
Quiescent ==
    /\ pc_main \in {"loop", "sleep"}
    /\ pc_cb \in {"idle", "return"}
    /\ pc_main = "sleep" \/ used.releases > 0

\* The running (or just finished) callback is inside toggle_strip for a
\* tracked key.
InToggle == pc_cb \in {"write", "led", "store"}
Toggled == pc_cb \in {"led", "store", "return"} /\ Len(t_log) >= 1

\* C1: whenever a toggle or a reconciliation pass has completed, every
\* indicator shows the color of its binding's lastValue.  Stated here for
\* the behaviours in which no lighting call has failed.
C1_IndicatorMatchesLastValue ==
    (Quiescent /\ used.failures = 0) => IndicatorsMatch

\* C2: toggle_strip and check_updates are serialized: a toggle that has
\* read a binding's entry and not yet stored it never coexists with a
\* pass that has read the same binding's external value and not yet
\* stored its entry.
C2_ToggleReconcileSerialized ==
    ~ ( /\ InToggle
        /\ pc_main \in {"led", "store"}
        /\ t_ent.led_id = p_ent.led_id )

\* One step of check_updates on the entry it has unpacked: a read that
\* finds the external value different from last_val goes on to set_color,
\* set_color is asked for the color of the value read, and the store
\* makes the value read the new lastValue.
ReconcileStep ==
    /\ (pc_main = "read" /\ pc_main' \notin {"read", "exit"}
            /\ ext[Loc(p_ent)] # p_ent.val)
        => (pc_main' = "led" /\ p_cur' = ext[Loc(p_ent)])
    /\ (pc_main = "led" /\ pc_main' # "led")
        => /\ pc_main' = "store"
           /\ Len(p_log') = 2
           /\ p_log'[2].op = "set_color"
           /\ p_log'[2].led_id = p_ent.led_id
           /\ p_log'[2].val = SetColorValue(p_ent, p_log[1].val)
           /\ p_log'[2].ok
                => led'[p_ent.led_id] = SetColorValue(p_ent, p_log[1].val)
    /\ (pc_main = "store" /\ pc_main' # "store")
        => monitored_params'[KeyOrder[p_idx]].val = p_log[1].val

\* check_updates has just finished an entry whose external value it
\* found changed, in a pass that ran alone with working lighting:
\* lastValue is the value read and the indicator shows its color.
Reconciled ==
    (pc_main = "next" /\ Len(p_log) = 2 /\ p_clean)
    => /\ p_log[1].val # p_ent.val
       /\ monitored_params[KeyOrder[p_idx - 1]].val = p_log[1].val
       /\ led[p_ent.led_id] = SetColorValue(p_ent, p_log[1].val)

\* C3: a reconciliation pass that finds a binding's external value
\* changed to something different from lastValue pushes the color of the
\* value it read to the binding's indicator and stores that value as
\* lastValue.
C3_ReconcileAdoptsExternalValue == []Reconciled /\ [][ReconcileStep]_vars

\* A pass has just reconciled an external write, no toggle ever ran:
\* lastValue, the external value and the indicator agree on the new value.
C3_Witness ==
    /\ pc_main = "next"
    /\ Len(p_log) = 2
    /\ p_clean
    /\ used.releases = 0
    /\ used.writes > 0
    /\ p_log[1].val # p_ent.val
    /\ ext[Loc(p_ent)] = p_log[1].val
    /\ monitored_params[KeyOrder[p_idx - 1]].val = p_log[1].val
    /\ led[p_ent.led_id] = SetColorValue(p_ent, p_log[1].val)

\* C4: a failing read or write of one binding's mixer parameter is
\* caught and does not stop the engine: the pass goes on with the other
\* bindings, later toggles and passes still run.
C4_BindingFailureIsolated ==
    fault \in {"read", "write"} => (pc_main # "done" /\ pc_cb # "dead")

\* The callback has just finished the second of two consecutive toggles
\* of the boolean key t_key, with nothing else touching the binding
\* since the first one started.
SecondBooleanToggleDone ==
    /\ pc_cb = "return"
    /\ pair.vk = t_key
    /\ pair.n = 2
    /\ ~IsGainEntry(t_ent)

\* C5 as stated: two consecutive toggles of a boolean binding, without
\* external or reconcile-induced change in between, leave the external
\* value and the indicator color as they were before the first toggle.
C5_DoubleToggleRestoresExternal ==
    SecondBooleanToggleDone
    => /\ ext[Loc(t_ent)] = pair.ext0
       /\ led[t_ent.led_id] = pair.led0

\* C5 amended: the two toggles restore lastValue and leave the external
\* parameter equal to the lastValue of before the first toggle, which
\* is the original external value only if lastValue was not stale; the
\* indicator shows the color of that value when the second toggle's
\* set_color succeeded.
C5_DoubleToggleRestoresLastValue ==
    SecondBooleanToggleDone
    => /\ monitored_params[t_key].val = pair.val0
       /\ ext[Loc(t_ent)] = pair.val0
       /\ t_log[2].ok => led[t_ent.led_id] = SetColorValue(t_ent, pair.val0)

\* Two toggles done from a stale lastValue: the external value is not the
\* original one.
C5_Witness ==
    /\ SecondBooleanToggleDone
    /\ pair.ext0 # pair.val0
    /\ ext[Loc(t_ent)] = pair.val0
    /\ t_log[2].ok

\* toggle_strip has written a gain binding whose live external value was
\* neither origin nor end.
GainToggledFromThirdValue ==
    /\ Toggled
    /\ IsGainEntry(t_ent)
    /\ t_log[1].was \notin {t_ent.rng[1], t_ent.rng[2]}

\* C6 as stated: a toggle of a gain binding whose live external value is
\* neither origin nor end writes end, whether or not a reconciliation
\* pass has run since the external change.
C6_ThirdValueTogglesToEnd ==
    GainToggledFromThirdValue => t_log[1].val = t_ent.rng[2]

\* C6 amended: that toggle writes end when lastValue differs from end
\* (as it does once a pass has stored the third value), and origin when
\* lastValue is still end because no pass has reconciled the change.
C6_ThirdValueTogglesByLastValue ==
    GainToggledFromThirdValue
    => t_log[1].val = IF t_ent.val = t_ent.rng[2]
                      THEN t_ent.rng[1] ELSE t_ent.rng[2]

\* The third value had been reconciled into lastValue and the toggle
\* wrote end over it.
C6_Witness ==
    /\ GainToggledFromThirdValue
    /\ t_ent.val = t_log[1].was
    /\ t_log[1].val = t_ent.rng[2]
    /\ used.writes > 0

\* C7: a toggle of a gain binding whose lastValue is end writes origin
\* and stores origin; the next toggle, nothing interfering, writes end
\* and stores end.
C7_GainToggleAlternates ==
    /\ (Toggled /\ IsGainEntry(t_ent) /\ t_ent.val = t_ent.rng[2])
       => (t_log[1].val = t_ent.rng[1] /\ t_new = t_ent.rng[1])
    /\ (pc_cb = "return" /\ IsGainEntry(t_ent) /\ pair.vk = t_key
            /\ pair.val0 = t_ent.rng[2] /\ pair.n = 1)
       => /\ monitored_params[t_key].val = t_ent.rng[1]
          /\ ext[Loc(t_ent)] = t_ent.rng[1]
    /\ (pc_cb = "return" /\ IsGainEntry(t_ent) /\ pair.vk = t_key
            /\ pair.val0 = t_ent.rng[2] /\ pair.n = 2)
       => /\ t_ent.val = t_ent.rng[1]
          /\ t_log[1].val = t_ent.rng[2]
          /\ monitored_params[t_key].val = t_ent.rng[2]
          /\ ext[Loc(t_ent)] = t_ent.rng[2]

\* The second of two toggles started at lastValue = end has stored end.
C7_Witness ==
    /\ pc_cb = "return"
    /\ IsGainEntry(t_ent)
    /\ pair.vk = t_key
    /\ pair.val0 = t_ent.rng[2]
    /\ pair.n = 2
    /\ monitored_params[t_key].val = t_ent.rng[2]

\* C8: in a toggle the external write comes before the indicator update:
\* every set_color call of toggle_strip follows the write of the value
\* whose color it sets.
C8_WriteBeforeIndicator ==
    \A i \in 1..Len(t_log) :
        t_log[i].op = "set_color"
        => /\ i > 1
           /\ t_log[i - 1].op = "write"
           /\ t_log[i].led_id = t_log[i - 1].led_id
           /\ t_log[i].val = SetColorValue(t_ent, t_log[i - 1].val)

\* The toggle has set the indicator after its write.
C8_Witness ==
    /\ pc_cb = "store"
    /\ Len(t_log) = 2
    /\ t_log[2].ok
    /\ led[t_ent.led_id] = SetColorValue(t_ent, t_log[1].val)

\* One step after a failed set_color: the caller goes on to its store,
\* the external write of a toggle stays, and the store makes the new
\* value lastValue and hands over to the next entry.
AfterFailedSetColor ==
    /\ (pc_main = "led" /\ pc_main' # "led" /\ ~p_log'[2].ok)
       => (pc_main' = "store" /\ fault' = fault /\ p_idx' = p_idx)
    /\ (pc_main = "store" /\ pc_main' # "store" /\ ~p_log[2].ok)
       => /\ monitored_params'[KeyOrder[p_idx]].val = p_cur
          /\ pc_main' = "next"
          /\ p_idx' = p_idx + 1
    /\ (pc_cb = "led" /\ pc_cb' # "led" /\ ~t_log'[2].ok)
       => (pc_cb' = "store" /\ fault' = fault /\ ext' = ext)
    /\ (pc_cb = "store" /\ pc_cb' # "store" /\ ~t_log[2].ok)
       => /\ monitored_params'[t_key].val = t_new
          /\ pc_cb' = "return"
          /\ ext' = ext

\* C9: a failing set_color never aborts the toggle or the pass that
\* called it.
C9_SetColorFailureNotFatal == [][AfterFailedSetColor]_vars

\* A pass has stored the value of its first entry after set_color failed
\* for it, and has the second entry still to process.
C9_Witness ==
    /\ pc_main = "next"
    /\ p_idx = 2
    /\ Len(p_log) = 2
    /\ ~p_log[2].ok
    /\ monitored_params[KeyOrder[1]].val = p_cur

\* C10: an indicator left stale by a failed set_color is stale only
\* until the next reconciliation pass in which the lighting works: when
\* a pass that ran alone, without a failing lighting call, has
\* completed, every indicator shows the color of its lastValue.
C10_StaleUntilNextPass ==
    (pc_main = "sleep" /\ p_clean /\ used.failures > 0) => IndicatorsMatch

\* A release whose key matches no binding: on_release returns without
\* calling toggle_strip (or toggle_strip returns at line 165), and
\* nothing but the callback's position changes.
UnboundReleaseStep ==
    /\ (pc_cb = "idle" /\ pc_cb' # "idle" /\ t_key' \notin ConfigKeys)
       => /\ pc_cb' = "return"
          /\ UNCHANGED <<ext, led, monitored_params, fault, t_ent, t_new,
                         t_log, listener_running>>
    /\ (pc_cb = "return" /\ pc_cb' # "return" /\ t_key \notin ConfigKeys)
       => /\ pc_cb' = "idle"
          /\ UNCHANGED <<ext, led, monitored_params, fault,
                         listener_running>>

\* The callback of an unmatched release has made no call on the mixer or
\* on the lighting SDK and is on its way out.
UnboundReleaseIdle ==
    (pc_cb \notin {"unstarted", "idle"} /\ t_key \notin ConfigKeys)
    => (pc_cb = "return" /\ t_log = <<>> /\ t_ent = NoEntry)

\* C11: a trigger that is not a key of the binding table is a no-op: no
\* external parameter is read or written, no indicator color is set, the
\* snapshot is unchanged and no error is raised; a release whose key
\* matches no binding never reaches a toggle.
C11_UnknownTriggerNoOp == []UnboundReleaseIdle /\ [][UnboundReleaseStep]_vars

\* The release of the unbound KeyCode 65 has been handled: the callback
\* returns with no call made and the snapshot intact.
C11_Witness ==
    /\ pc_cb = "return"
    /\ t_key = 65
    /\ t_log = <<>>
    /\ fault = "none"
    /\ \A vk \in ConfigKeys :
           monitored_params[vk] = Entry(vk, monitored_params[vk].val)

\* The main thread is in the poll loop or in check_updates.
InPollLoop == pc_main \in {"loop", "next", "read", "led", "store", "sleep"}

\* The steps of startup: __init__ reads every binding's external value
\* into the snapshot, initialize_leds then asks every indicator for the
\* color of its snapshot value (a failing SDK call leaves that indicator
\* as it was), neither runs a second time, and the listener is started
\* only after both.
InitStep ==
    /\ (pc_main = "construct" /\ pc_main' \notin {"construct", "done"})
       => /\ pc_main' = "init_leds"
          /\ pc_cb = "unstarted"
          /\ monitored_params' =
                 [vk \in ConfigKeys |-> Entry(vk, ext[Loc(STRIP_CONFIG[vk])])]
    /\ (pc_main = "init_leds" /\ pc_main' # "init_leds")
       => /\ pc_main' = "listen"
          /\ pc_cb = "unstarted"
          /\ monitored_params' = monitored_params
          /\ \A vk \in ConfigKeys :
                led'[STRIP_CONFIG[vk].led_id]
                    \in {led[STRIP_CONFIG[vk].led_id], ColorOfLastValue(vk)}
          /\ (used'.failures = used.failures) => IndicatorsMatch'
    /\ (pc_main' = "construct") => (pc_main = "construct")
    /\ (pc_main' = "init_leds") => (pc_main \in {"construct", "init_leds"})
    /\ (pc_cb = "unstarted" /\ pc_cb' # "unstarted") => pc_main = "listen"

\* Once a toggle or a pass can run, every binding is tracked and startup
\* is over; when the listener is about to start, every indicator whose
\* SDK call worked shows the color of its snapshot value.
InitializedBeforeUse ==
    /\ (pc_cb # "unstarted" \/ InPollLoop)
       => /\ DOMAIN monitored_params = ConfigKeys
          /\ InPollLoop \/ pc_main \in {"exit", "closing", "done"}
    /\ (pc_main = "listen")
       => /\ DOMAIN monitored_params = ConfigKeys
          /\ pc_cb = "unstarted"
          /\ (used.failures = 0) => IndicatorsMatch

\* C12: initialization (every binding's external value read into the
\* snapshot, its color pushed to its indicator) runs to completion for
\* all bindings exactly once before the first toggle_strip or
\* check_updates call can execute.
C12_InitBeforeToggleAndReconcile ==
    []InitializedBeforeUse /\ [][InitStep]_vars

\* The listener has just been started: no release has been delivered, no
\* pass has begun, every binding is tracked and every indicator shows the
\* color of its snapshot value.
C12_Witness ==
    /\ pc_main = "loop"
    /\ pc_cb = "idle"
    /\ p_idx = 0
    /\ used.releases = 0
    /\ used.failures = 0
    /\ DOMAIN monitored_params = ConfigKeys
    /\ IndicatorsMatch
    /\ \A id \in LedIds : led[id] # NoColor

\* The listener was started and has stopped.
ListenerStopped == pc_cb # "unstarted" /\ ~listener_running

\* The steps of the poll loop around a stop of the listener: the loop
\* condition that finds the listener stopped makes main leave the with
\* block instead of starting a pass; main leaves the loop only there or
\* through an exception that nothing catches; a pass in flight goes on
\* entry after entry and reaches the sleep only after the last binding.
LoopExitStep ==
    /\ (pc_main = "loop" /\ pc_main' # "loop" /\ ~listener_running)
       => pc_main' = "exit"
    /\ (InPollLoop /\ pc_main' \notin {"loop", "next", "read", "led", "store",
                                        "sleep"}
            /\ fault' = fault)
       => (pc_main = "loop" /\ ~listener_running)
    /\ (pc_main \in {"next", "read", "led", "store"} /\ pc_main' # pc_main
            /\ fault' = fault)
       => /\ pc_main' \in {"next", "read", "led", "store", "sleep"}
          /\ (pc_main' = "sleep") => (p_idx = Len(KeyOrder) + 1)
          /\ (pc_main' = "read") => (p_ent' = monitored_params[KeyOrder[p_idx]])

\* C13: once the listener has stopped the poll loop eventually
\* terminates and starts no pass after observing the stop; a pass in
\* flight when the listener stops is not cut short but processes all
\* bindings before the loop exits.
C13_LoopEndsAfterListenerStop ==
    /\ ListenerStopped ~> (pc_main = "done")
    /\ [][LoopExitStep]_vars

\* The listener stopped during a pass that had found the gain changed;
\* the pass went on through the remaining steps and main has returned
\* with no exception.
C13_Witness ==
    /\ pc_main = "done"
    /\ ListenerStopped
    /\ fault = "none"
    /\ pc_cb = "idle"
    /\ used.writes > 0
    /\ \A vk \in ConfigKeys :
           /\ monitored_params[vk].val = ext[Loc(monitored_params[vk])]
           /\ led[monitored_params[vk].led_id] = ColorOfLastValue(vk)

\* color_for_gain has been applied to the value p_cur and the reference
\* pair of p_ent; Shown is the color it returned.
Colored == pc_main = "colored"
Origin == p_ent.rng[1]
End == p_ent.rng[2]
Shown == led[p_ent.led_id]

\* C14: for every reference pair with origin # end, ascending or
\* descending, color_for_gain gives GREEN at origin and RED at end; for
\* origin = end it gives RED.
C14_EndpointColors ==
    Colored
    => /\ (Origin # End /\ p_cur = Origin) => Shown = GREEN
       /\ (Origin # End /\ p_cur = End) => Shown = RED
       /\ (Origin = End) => Shown = RED

\* The end of a descending pair has been given RED.
C14_Witness ==
    /\ Colored
    /\ Origin > End
    /\ p_cur = End
    /\ Shown = RED

\* Where a value lies with respect to a reference pair with origin # end.
BeyondOrigin(value, origin, end) ==
    IF origin < end THEN value < origin ELSE value > origin
BeyondEnd(value, origin, end) ==
    IF origin < end THEN value > end ELSE value < end
Inside(value, origin, end) ==
    Min2(origin, end) <= value /\ value <= Max2(origin, end)

\* C15: for origin # end, ascending or descending, a value outside the
\* interval on the origin side gets BLUE, a value outside it on the end
\* side gets RED, and a value inside it gets a color with blue 0 and red
\* and green integers in 0..255.
C15_OutOfRangeAndChannels ==
    (Colored /\ Origin # End)
    => /\ BeyondOrigin(p_cur, Origin, End) => Shown = BLUE
       /\ BeyondEnd(p_cur, Origin, End) => Shown = RED
       /\ Inside(p_cur, Origin, End)
          => /\ Shown[3] = 0
             /\ Shown[1] \in 0..255
             /\ Shown[2] \in 0..255

\* A value above the origin of a descending pair has been given BLUE.
C15_Witness ==
    /\ Colored
    /\ Origin > End
    /\ p_cur > Origin
    /\ Shown = BLUE

\* v2 is at least as far from origin towards end as v1.
AtLeastAsFar(v2, v1, origin, end) ==
    IF origin < end THEN v2 >= v1 ELSE v2 <= v1

\* C16: for origin # end, ascending or descending, and two values inside
\* the interval, the one at least as far from origin towards end has a
\* red channel at least as large and a green channel at most as large.
C16_GradientMonotonic ==
    (Colored /\ Origin # End /\ Inside(p_cur, Origin, End))
    => \A v2 \in ColorValues :
          (Inside(v2, Origin, End) /\ AtLeastAsFar(v2, p_cur, Origin, End))
          => /\ color_for_gain(v2, Origin, End)[1] >= Shown[1]
             /\ color_for_gain(v2, Origin, End)[2] <= Shown[2]

\* A value strictly inside a descending pair has a mixed color, and a
\* value further towards end has more red and less green.
C16_Witness ==
    /\ Colored
    /\ Origin > End
    /\ End < p_cur /\ p_cur < Origin
    /\ Shown[1] \in 1..254
    /\ Shown[2] \in 1..254
    /\ \E v2 \in ColorValues :
          /\ End < v2 /\ v2 < p_cur
          /\ color_for_gain(v2, Origin, End)[1] > Shown[1]
          /\ color_for_gain(v2, Origin, End)[2] < Shown[2]

\* Every binding's lastValue is the external value and its indicator
\* shows the color of that value.
InSync ==
    \A vk \in DOMAIN monitored_params :
        /\ monitored_params[vk].val = ext[Loc(monitored_params[vk])]
        /\ led[monitored_params[vk].led_id]
               = SetColorValue(monitored_params[vk],
                               ext[Loc(monitored_params[vk])])

\* C17: under any interleaving of the callback and the poll loop, if
\* from some point on no key release, external change or I/O failure
\* occurs and the poll loop keeps running, then eventually and from then
\* on every binding's lastValue equals the external value and its
\* indicator shows the color of that value.  Stated here for the
\* behaviours in which no lighting call ever fails; a behaviour has
\* finitely many releases and external changes, and the poll loop keeps
\* running when it reaches its sleep again and again.
C17_EventuallyInSync ==
    ([]<>(pc_main = "sleep") /\ [](used.failures = 0)) => <>[]InSync

\* The step of toggle_strip in which the setattr raises: the call ends
\* there, with the mixer, the snapshot and the indicators as they were
\* and no call logged.
WriteFailureStep ==
    (pc_cb = "write" /\ pc_cb' # "write" /\ fault' # fault)
    => /\ pc_cb' = "dead"
       /\ UNCHANGED <<ext, led, monitored_params, t_log>>

\* After a failed write the callback never runs again and toggle_strip
\* has made no call for the value it could not write.
WriteFailureAbandons ==
    (fault = "write") => (pc_cb = "dead" /\ t_log = <<>>)

\* C18: if the write of the new value to the external parameter fails
\* during toggle_strip, the toggle is abandoned with the binding's state
\* unchanged: lastValue keeps its previous value and no indicator color
\* is set for the value that failed to be written.
C18_FailedWriteLeavesState ==
    []WriteFailureAbandons /\ [][WriteFailureStep]_vars

\* The write of toggle_strip has failed for a boolean binding: lastValue
\* is still the old value, the external value is unchanged and the
\* indicator still shows the old value's color.
C18_Witness ==
    /\ fault = "write"
    /\ pc_cb = "dead"
    /\ ~IsGainEntry(t_ent)
    /\ t_new # t_ent.val
    /\ monitored_params[t_key].val = t_ent.val
    /\ ext[Loc(t_ent)] = t_ent.val
    /\ led[t_ent.led_id] = SetColorValue(t_ent, t_ent.val)

\* The steps of a pass as far as they concern what it leaves alone: a
\* read that finds the external value equal to last_val moves on to the
\* next entry with no set_color call, the indicators and the snapshot
\* untouched; no step of the main thread in the poll loop changes a
\* mixer parameter.
PassFrameStep ==
    /\ (pc_main = "read" /\ pc_main' \notin {"read", "exit"}
            /\ ext[Loc(p_ent)] = p_ent.val)
       => /\ pc_main' = "next"
          /\ p_idx' = p_idx + 1
          /\ Len(p_log') = 1
          /\ p_log'[1].op = "read"
          /\ UNCHANGED <<led, monitored_params>>
    /\ (InPollLoop /\ pc_main' # pc_main) => (ext' = ext)

\* The calls a pass has made for its entry: a read, and a set_color only
\* after a read that differed from last_val; never a write.
PassCalls ==
    /\ \A i \in 1..Len(p_log) :
           p_log[i].op = IF i = 1 THEN "read" ELSE "set_color"
    /\ (Len(p_log) >= 1 /\ p_log[1].val = p_ent.val) => (Len(p_log) = 1)

\* C19: a pass acts only on bindings whose external value differs from
\* lastValue (the last_val it unpacked at line 188): for a binding whose
\* value read equals it, the pass issues no indicator-set request and
\* leaves the snapshot entry unchanged; no pass writes to an external
\* parameter.
C19_PassActsOnlyOnChange == []PassCalls /\ [][PassFrameStep]_vars

\* A pass that ran alone after an external change has finished its last
\* entry, the gain, whose value it found equal to lastValue: it made the
\* read only, and the entry and the indicator are as they were.
C19_Witness ==
    /\ pc_main = "next"
    /\ p_idx = Len(KeyOrder) + 1
    /\ p_clean
    /\ used.writes > 0
    /\ Len(p_log) = 1
    /\ p_log[1].val = p_ent.val
    /\ monitored_params[KeyOrder[p_idx - 1]] = p_ent
    /\ led[p_ent.led_id] = SetColorValue(p_ent, p_ent.val)

\* The steps of toggle_strip on the tracked key t_key: the write changes
\* the parameter of that binding only, and no step touches another
\* binding's external value, snapshot entry or indicator.
ToggleFrameStep ==
    (InToggle /\ pc_cb' # pc_cb)
    => /\ \A vk \in ConfigKeys \ {t_key} :
              /\ monitored_params'[vk] = monitored_params[vk]
              /\ ext'[Loc(STRIP_CONFIG[vk])] = ext[Loc(STRIP_CONFIG[vk])]
              /\ led'[STRIP_CONFIG[vk].led_id] = led[STRIP_CONFIG[vk].led_id]
       /\ (pc_cb = "write" /\ pc_cb' = "led")
          => ext' = [ext EXCEPT ![Loc(STRIP_CONFIG[t_key])] = t_new']

\* A toggle_strip call that has reached its end has made exactly one
\* write and one set_color, both for the binding of its key.
ToggleCalls ==
    (pc_cb = "return" /\ t_key \in ConfigKeys)
    => /\ Len(t_log) = 2
       /\ t_log[1].op = "write"
       /\ t_log[1].led_id = STRIP_CONFIG[t_key].led_id
       /\ t_log[2].op = "set_color"
       /\ t_log[2].led_id = STRIP_CONFIG[t_key].led_id

\* The snapshot tracks the keys of the table, each with the location,
\* indicator, kind and reference pair the table gives it.
StaticFieldsKept ==
    /\ DOMAIN monitored_params \in {{}, ConfigKeys}
    /\ \A vk \in DOMAIN monitored_params :
           monitored_params[vk] = Entry(vk, monitored_params[vk].val)

\* C20: toggle_strip on a known trigger affects only that trigger's
\* binding: one external write to its parameter and one indicator-set
\* request to its indicator; every other binding's external value,
\* lastValue and indicator are unchanged, and neither toggle_strip nor
\* check_updates changes the set of tracked bindings or an entry's
\* static fields.
C20_ToggleTouchesOneBinding ==
    /\ []ToggleCalls
    /\ []StaticFieldsKept
    /\ [][ToggleFrameStep]_vars

\* toggle_strip has finished for the gain key: its parameter and
\* lastValue hold the new value, and the boolean binding is as the
\* startup left it.
C20_Witness ==
    /\ pc_cb = "return"
    /\ t_key = 104
    /\ Len(t_log) = 2
    /\ used.writes = 0
    /\ used.releases = 1
    /\ ext[Loc(STRIP_CONFIG[104])] = t_new
    /\ monitored_params[104] = Entry(104, t_new)
    /\ monitored_params[97] = Entry(97, ext[Loc(STRIP_CONFIG[97])])
    /\ led[STRIP_CONFIG[97].led_id] = ColorOfLastValue(97)

====
